---- MODULE Spec2Model ----
(***************************************************************************)
(* Model of package eventsource: the SSE codec (Encoder, Decoder) and the  *)
(* reconnecting client (EventSource: NewConfig, Close, connect, Read).     *)
(*                                                                         *)
(* Text is modelled as sequences of one-character strings.  Three bytes    *)
(* and runes have names: LF is '\n', CR is '\r', BOM is the rune U+FEFF    *)
(* and XFF is a byte that is not valid UTF-8.                              *)
(***************************************************************************)
EXTENDS Integers, Sequences, FiniteSets, TLC

(***************************************************************************)
(* Bounds of the model.                                                    *)
(***************************************************************************)
MaxRequests == 3
MaxReads == 3
MaxCloses == 1
MaxEvents == 2
MaxLines == 3

(***************************************************************************)
(* Characters and the words of the wire format.                            *)
(***************************************************************************)
LF == "LF"
CR == "CR"
BOM == "BOM"
XFF == "XFF"

newline == <<LF>>
colon == <<":">>

FieldID == <<"i", "d">>
FieldRetry == <<"r", "e", "t", "r", "y">>
FieldEvent == <<"e", "v", "e", "n", "t">>
FieldData == <<"d", "a", "t", "a">>
TypeMessage == <<"m", "e", "s", "s", "a", "g", "e">>

\* The errors of the package and of its collaborators.
NoErr == "nil"
ErrClosed == "ErrClosed"
ErrInvalidEncoding == "ErrInvalidEncoding"
ErrEOF == "EOF"
ErrBodyClosed == "read on closed body"
ErrCanceled == "context.Canceled"
ErrTransport == "transport error"
ErrContentType == "invalid response Content-Type"
ErrStatus == "endpoint returned unrecoverable status"

\* type Event: the zero value.
ZeroEvent == [Type |-> <<>>, ID |-> <<>>, Retry |-> <<>>, Data |-> <<>>, ResetID |-> FALSE]

(***************************************************************************)
(* Helpers on byte sequences.                                              *)
(***************************************************************************)
\* utf8.Valid / utf8.ValidString
Valid(s) == \A i \in 1..Len(s) : s[i] # XFF

\* Index of the first c in s at or after position from, 0 when there is none.
IndexFrom(s, c, from) ==
    IF \E i \in from..Len(s) : s[i] = c
    THEN CHOOSE i \in from..Len(s) : s[i] = c /\ \A j \in from..(i - 1) : s[j] # c
    ELSE 0

\* bytes.Cut(buf, colon)
Cut(buf) ==
    LET i == IndexFrom(buf, ":", 1)
    IN IF i = 0 THEN [before |-> buf, after |-> <<>>]
       ELSE [before |-> SubSeq(buf, 1, i - 1), after |-> SubSeq(buf, i + 1, Len(buf))]

\* bytes.Split(value, newline)
RECURSIVE Split(_)
Split(value) ==
    LET i == IndexFrom(value, LF, 1)
    IN IF i = 0 THEN <<value>>
       ELSE <<SubSeq(value, 1, i - 1)>> \o Split(SubSeq(value, i + 1, Len(value)))

(***************************************************************************)
(* Decoder.  A decoder state is [pos, checkedBOM]: pos is the index of the *)
(* next unread byte of the stream it reads.                                *)
(***************************************************************************)
NewDecoderState == [pos |-> 1, checkedBOM |-> FALSE]

\* bufio.Reader.ReadLine on the unread part of the stream; eof is the error
\* the stream gives at its end.  The isPrefix loop of ReadField joins the
\* pieces of a long line, so one call yields the whole line.
ReadLine(content, pos, eof) ==
    IF pos > Len(content) THEN [line |-> <<>>, pos |-> pos, err |-> eof]
    ELSE LET nl == IndexFrom(content, LF, pos)
         IN IF nl = 0
            THEN [line |-> SubSeq(content, pos, Len(content)),
                  pos |-> Len(content) + 1, err |-> NoErr]
            ELSE LET drop == IF nl - 1 >= pos /\ content[nl - 1] = CR THEN 1 ELSE 0
                 IN [line |-> SubSeq(content, pos, nl - 1 - drop),
                     pos |-> nl + 1, err |-> NoErr]

\* checkBOM that does not record that it has run: ReadField looks for a
\* byte-order mark at the start of every line.
checkBOM_MutantEveryLine(content, d) ==
    IF d.pos > Len(content) THEN d
    ELSE [pos |-> IF content[d.pos] = BOM THEN d.pos + 1 ELSE d.pos,
          checkedBOM |-> FALSE]

\* Decoder.checkBOM
checkBOM(content, d) ==
    IF d.pos > Len(content) THEN d
    ELSE [pos |-> IF content[d.pos] = BOM THEN d.pos + 1 ELSE d.pos,
          checkedBOM |-> TRUE]

\* Decoder.ReadField
ReadField(content, d0, eof) ==
    LET d == IF ~d0.checkedBOM THEN checkBOM(content, d0) ELSE d0
        rl == ReadLine(content, d.pos, eof)
        d1 == [d EXCEPT !.pos = rl.pos]
        c == Cut(rl.line)
        v == IF Len(c.after) > 0 /\ c.after[1] = " " THEN Tail(c.after) ELSE c.after
    IN IF rl.err # NoErr THEN [field |-> <<>>, value |-> <<>>, err |-> rl.err, d |-> d1]
       ELSE IF Len(rl.line) = 0 THEN [field |-> <<>>, value |-> <<>>, err |-> NoErr, d |-> d1]
       ELSE IF ~Valid(c.before) \/ ~Valid(v)
            THEN [field |-> <<>>, value |-> <<>>, err |-> ErrInvalidEncoding, d |-> d1]
       ELSE [field |-> c.before, value |-> v, err |-> NoErr, d |-> d1]

\* The field dispatch of Decoder.Decode.
ApplyField(e, wroteData, field, value) ==
    IF field = FieldID
    THEN [e EXCEPT !.ID = value, !.ResetID = IF Len(value) = 0 THEN TRUE ELSE e.ResetID]
    ELSE IF field = FieldRetry THEN [e EXCEPT !.Retry = value]
    ELSE IF field = FieldEvent THEN [e EXCEPT !.Type = value]
    ELSE IF field = FieldData
    THEN [e EXCEPT !.Data = IF wroteData THEN (e.Data \o newline) \o value
                             ELSE e.Data \o value]
    ELSE e

\* The loop of Decoder.Decode.  The values of one iteration are bound
\* once, as the elements of one-element sets.
RECURSIVE DecodeLoop(_, _, _, _, _)
DecodeLoop(content, d, e, wroteData, eof) ==
    CHOOSE out \in
        { IF f.err # NoErr THEN [e |-> e0, err |-> f.err, d |-> f.d]
          ELSE IF Len(f.field) = 0 /\ Len(f.value) = 0
               THEN [e |-> e0, err |-> NoErr, d |-> f.d]
          ELSE DecodeLoop(content, f.d, ApplyField(e0, w0, f.field, f.value),
                          w0 \/ f.field = FieldData, eof) :
            f \in {ReadField(content, d, eof)}, e0 \in {e}, w0 \in {wroteData} } : TRUE

\* Decoder.Decode(e): the event pointed to, the error, and the decoder after.
Decode(content, d, e, eof) ==
    DecodeLoop(content, d, [e EXCEPT !.Type = TypeMessage], FALSE, eof)

(***************************************************************************)
(* Encoder.  Each operation yields the bytes it wrote and its error.       *)
(***************************************************************************)
\* writeField without the space after the colon.
writeField_MutantNoSpace(field, value) ==
    IF Len(value) = 0 THEN field \o newline
    ELSE ((field \o <<":">>) \o value) \o newline

\* Encoder.writeField
writeField(field, value) ==
    IF Len(value) = 0 THEN field \o newline
    ELSE ((field \o <<":", " ">>) \o value) \o newline

StripCR(line) ==
    IF Len(line) > 0 /\ line[Len(line)] = CR THEN SubSeq(line, 1, Len(line) - 1) ELSE line

RECURSIVE WriteLines(_, _)
WriteLines(field, lines) ==
    IF lines = <<>> THEN <<>>
    ELSE writeField(field, StripCR(Head(lines))) \o WriteLines(field, Tail(lines))

\* Encoder.WriteField
WriteField(field, value) ==
    IF ~Valid(field) \/ ~Valid(value) THEN [out |-> <<>>, err |-> ErrInvalidEncoding]
    ELSE [out |-> WriteLines(field, Split(value)), err |-> NoErr]

\* Encoder.Flush
Flush == newline

\* Encoder.Encode
Encode(event) ==
    LET w1 == IF event.ResetID \/ Len(event.ID) > 0 THEN WriteField(FieldID, event.ID)
              ELSE [out |-> <<>>, err |-> NoErr]
        w2 == IF Len(event.Retry) > 0 THEN WriteField(FieldRetry, event.Retry)
              ELSE [out |-> <<>>, err |-> NoErr]
        w3 == IF Len(event.Type) > 0 THEN WriteField(FieldEvent, event.Type)
              ELSE [out |-> <<>>, err |-> NoErr]
        w4 == WriteField(FieldData, event.Data)
    IN IF w1.err # NoErr THEN [out |-> w1.out, err |-> w1.err]
       ELSE IF w2.err # NoErr THEN [out |-> w1.out \o w2.out, err |-> w2.err]
       ELSE IF w3.err # NoErr THEN [out |-> (w1.out \o w2.out) \o w3.out, err |-> w3.err]
       ELSE IF w4.err # NoErr
            THEN [out |-> ((w1.out \o w2.out) \o w3.out) \o w4.out, err |-> w4.err]
       ELSE [out |-> (((w1.out \o w2.out) \o w3.out) \o w4.out) \o Flush, err |-> NoErr]

(***************************************************************************)
(* The transport's answers.  The streams a 200 response may carry, as the  *)
(* lines of the wire format; Wire joins lines, each ended by LF, and adds  *)
(* rest, an unterminated last line.                                        *)
(***************************************************************************)
RECURSIVE Wire(_, _)
Wire(lines, rest) ==
    IF lines = <<>> THEN rest
    ELSE (Head(lines) \o newline) \o Wire(Tail(lines), rest)

LineID1 == <<"i", "d", ":", " ", "1">>
LineID2 == <<"i", "d", ":", "2">>
LineIDReset == <<"i", "d">>
LineRetry5 == <<"r", "e", "t", "r", "y", ":", " ", "5">>
LineRetry7 == <<"r", "e", "t", "r", "y", ":", "7">>
LineRetryNeg == <<"r", "e", "t", "r", "y", ":", " ", "-", "5">>
LineRetryBad == <<"r", "e", "t", "r", "y", ":", " ", "5", "s">>
LineRetryHuge ==
    <<"r", "e", "t", "r", "y", ":", " ",
      "1", "0", "0", "0", "0", "0", "0", "0", "0", "0", "0", "0", "0", "0">>
LineEventT == <<"e", "v", "e", "n", "t", ":", " ", "t">>
LineDataX == <<"d", "a", "t", "a", ":", " ", "x">>
LineDataY == <<"d", "a", "t", "a", ":", "y">>
LineDataEmpty == <<"d", "a", "t", "a">>
LineInvalid == <<"d", "a", "t", "a", ":", " ", XFF>>
LineEventEmpty == <<"e", "v", "e", "n", "t">>
LineColon == <<":">>
LineCR == <<CR>>
LineBOM == <<BOM>>
LineBOMDataX == <<BOM, "d", "a", "t", "a", ":", " ", "x">>
LineUnknown == <<"d", "a", "t", "a", "s", ":", "y">>
Blank == <<>>

Streams ==
    << Wire(<<LineID1, LineDataX, Blank>>, <<>>),
       Wire(<<LineIDReset, LineRetry5, LineEventT, LineDataY, Blank>>, <<>>),
       Wire(<<LineID1, LineRetry5, LineEventT, LineDataEmpty, Blank,
              LineID2, LineDataX, LineDataY, Blank>>, <<>>),
       Wire(<<LineID1, LineInvalid, LineDataX, Blank>>, <<>>),
       Wire(<<LineID2, LineRetry7>>, LineDataX),
       Wire(<<<<BOM>> \o LineDataX, Blank, LineID1, LineDataY, Blank>>, <<>>),
       <<>>,
       Wire(<<LineRetryNeg, LineDataX, Blank, LineRetryBad, LineDataY, Blank>>, <<>>),
       Wire(<<LineRetryHuge, LineDataX, Blank>>, <<>>) >>

StreamIds == 1..Len(Streams)

\* The bytes of a response body; the body of a response that is not a
\* stream (stream 0) is empty.
Content(s) == IF s = 0 THEN <<>> ELSE Streams[s]

\* Decoder.Decode into a zero Event, tabulated for every stream and every
\* Decoder state on it.
DecodeTable ==
    [st \in 0..Len(Streams) |->
        [p \in 1..(Len(Content(st)) + 1) |->
            [b \in BOOLEAN |->
                Decode(Content(st), [pos |-> p, checkedBOM |-> b], ZeroEvent, ErrEOF)]]]

\* es.dec.Decode(&e) on a body carrying stream st, with the Decoder in state
\* d.  An open body yields its bytes and then ends.  A closed body gives a
\* read error: at once, or (buffered) only after the bytes the bufio.Reader
\* of the Decoder had already read from it.
BodyDecode(st, d, open, buffered) ==
    IF ~buffered THEN Decode(SubSeq(Content(st), 1, d.pos - 1), d, ZeroEvent, ErrBodyClosed)
    ELSE IF open THEN DecodeTable[st][d.pos][d.checkedBOM]
    ELSE [DecodeTable[st][d.pos][d.checkedBOM] EXCEPT
             !.err = IF @ = ErrEOF THEN ErrBodyClosed ELSE @]

\* Content-Type headers a 200 response may carry ("" is an absent header).
ContentTypes ==
    { "", "text/event-stream", "Text/Event-Stream; charset=utf-8",
      "text/event-stream; =x", "text/event-stream; a=1; a=2", "text/html" }

\* mime.ParseMediaType(ct): the media type it returns, lower-cased and
\* without parameters; "" when the header does not parse.  An invalid
\* parameter still yields the media type (with mime.ErrInvalidMediaParameter,
\* which connect ignores); a duplicate parameter yields "".
ParseMediaType(ct) ==
    CASE ct = "text/event-stream" -> "text/event-stream"
      [] ct = "Text/Event-Stream; charset=utf-8" -> "text/event-stream"
      [] ct = "text/event-stream; =x" -> "text/event-stream"
      [] ct = "text/html" -> "text/html"
      [] OTHER -> ""

Statuses == {200, 204, 404, 499, 500, 503}

\* What HTTPClient.Do may return: an error, or a response with a status,
\* a Content-Type header and a body.
NoResp == [kind |-> "none"]
ErrOutcomes == { [kind |-> "err", err |-> e] : e \in {ErrCanceled, ErrTransport} }
RespOutcomes ==
    { [kind |-> "resp", status |-> st, ct |-> "", stream |-> 0] : st \in Statuses \ {200} }
    \cup { [kind |-> "resp", status |-> 200, ct |-> ct, stream |-> 0] :
              ct \in {c \in ContentTypes : ParseMediaType(c) # "text/event-stream"} }
    \cup { [kind |-> "resp", status |-> 200, ct |-> ct, stream |-> s] :
              ct \in {c \in ContentTypes : ParseMediaType(c) = "text/event-stream"},
              s \in StreamIds }
Outcomes == ErrOutcomes \cup RespOutcomes

(***************************************************************************)
(* The client.                                                             *)
(***************************************************************************)
(***************************************************************************)
(* Integers of 64 bits.  An int or a time.Duration is a record [neg, mag]: *)
(* a sign and a magnitude, the magnitude being its decimal digits, most    *)
(* significant first and without leading zeros (<<>> for zero), so that    *)
(* values near 2^63 are computed exactly.  A Duration counts nanoseconds.  *)
(***************************************************************************)
Two63 == <<9, 2, 2, 3, 3, 7, 2, 0, 3, 6, 8, 5, 4, 7, 7, 5, 8, 0, 8>>
Two64 == <<1, 8, 4, 4, 6, 7, 4, 4, 0, 7, 3, 7, 0, 9, 5, 5, 1, 6, 1, 6>>

RECURSIVE BigStrip(_)
BigStrip(a) == IF Len(a) > 0 /\ a[1] = 0 THEN BigStrip(Tail(a)) ELSE a

\* a < b, for magnitudes without leading zeros
BigLess(a, b) ==
    \/ Len(a) < Len(b)
    \/ /\ Len(a) = Len(b)
       /\ \E i \in 1..Len(a) : a[i] < b[i] /\ \A j \in 1..(i - 1) : a[j] = b[j]

\* The digits 1..i of a - b, for a >= b, with a borrow from the digit after.
RECURSIVE BigSubFrom(_, _, _, _)
BigSubFrom(a, b, i, borrow) ==
    IF i = 0 THEN <<>>
    ELSE LET k == i - (Len(a) - Len(b))
             d == (a[i] - (IF k >= 1 THEN b[k] ELSE 0)) - borrow
         IN IF d < 0 THEN Append(BigSubFrom(a, b, i - 1, 1), d + 10)
            ELSE Append(BigSubFrom(a, b, i - 1, 0), d)

BigSub(a, b) == BigStrip(BigSubFrom(a, b, Len(a), 0))

\* m followed by k zeros: m * 10^k
BigShift(m, k) == IF m = <<>> THEN <<>> ELSE m \o [i \in 1..k |-> 0]

\* a mod m, by long division from the shift k down
RECURSIVE BigMod(_, _, _)
BigMod(a, m, k) ==
    IF k < 0 THEN a
    ELSE IF BigLess(a, BigShift(m, k)) THEN BigMod(a, m, k - 1)
    ELSE BigMod(BigSub(a, BigShift(m, k)), m, k)

\* The int64 that the low 64 bits of the integer [neg, mag] are.
Int64(neg, mag) ==
    LET low == BigMod(mag, Two64, Len(mag) - Len(Two64))
        u == IF neg /\ low # <<>> THEN BigSub(Two64, low) ELSE low
    IN IF BigLess(u, Two63) THEN [neg |-> FALSE, mag |-> u]
       ELSE [neg |-> TRUE, mag |-> BigSub(Two64, u)]

\* The digits of a small natural number.
RECURSIVE NatDigits(_)
NatDigits(n) == IF n = 0 THEN <<>> ELSE Append(NatDigits(n \div 10), n % 10)

\* time.Duration(n) * time.Millisecond, in int64 arithmetic
Milliseconds(n) == Int64(n.neg, BigShift(n.mag, 6))

\* Config.Retry values given to NewConfig, and the default, in milliseconds.
ConfigRetries == {0, 10}
DefaultRetry == 1000

\* NewConfig: the retry interval of the new client.
NewConfigRetry(configRetry) ==
    IF configRetry <= 0 THEN Milliseconds([neg |-> FALSE, mag |-> NatDigits(DefaultRetry)])
    ELSE Milliseconds([neg |-> FALSE, mag |-> NatDigits(configRetry)])

\* strconv.Atoi on a field value, with an int of 64 bits: an optional sign
\* and decimal digits; a value outside the range of int is an error.
DigitVal(c) ==
    CASE c = "0" -> 0 [] c = "1" -> 1 [] c = "2" -> 2 [] c = "3" -> 3 [] c = "4" -> 4
      [] c = "5" -> 5 [] c = "6" -> 6 [] c = "7" -> 7 [] c = "8" -> 8 [] c = "9" -> 9
      [] OTHER -> -1

DigitsVal(s) == BigStrip([i \in 1..Len(s) |-> DigitVal(s[i])])

Atoi(s) ==
    LET signed == Len(s) > 0 /\ s[1] \in {"+", "-"}
        digits == IF signed THEN Tail(s) ELSE s
        neg == signed /\ s[1] = "-"
    IN IF Len(digits) = 0 \/ \E i \in 1..Len(digits) : DigitVal(digits[i]) < 0
       THEN [ok |-> FALSE, n |-> [neg |-> FALSE, mag |-> <<>>]]
       ELSE IF (IF neg THEN BigLess(Two63, DigitsVal(digits))
                ELSE ~BigLess(DigitsVal(digits), Two63))
       THEN [ok |-> FALSE, n |-> [neg |-> FALSE, mag |-> <<>>]]
       ELSE [ok |-> TRUE, n |-> [neg |-> neg /\ DigitsVal(digits) # <<>>,
                                 mag |-> DigitsVal(digits)]]

VARIABLES
    err,          \* es.err, NoErr for nil
    r,            \* es.r: the index in bodies of the bound body, 0 for nil
    dec,          \* es.dec: [body, d], the body read and the Decoder state
    lastEventID,  \* es.lastEventID
    retry,        \* es.retry, a Duration
    bodies,       \* every response body handed out: [open, stream]
    pc,           \* where the goroutine calling Read is
    resp,         \* connect's resp, err: the outcome being classified
    waited,       \* the intervals connect waited before this attempt: none or one
    afterClose,   \* whether the Read in progress began after a Close returned
    cpc,          \* where the goroutine calling Close is
    closes,       \* number of Close calls begun
    requests,     \* history: the requests issued, [hdr, nret, waited]
    answers,      \* history: what the transport answered to each request
    returned,     \* history: what the Read calls returned
    codec         \* an Encoder and a Decoder at the two ends of an io.Pipe

vars == <<err, r, dec, lastEventID, retry, bodies, pc, resp, waited, afterClose,
          cpc, closes, requests, answers, returned, codec>>

\* The variables of the client.
clientVars == <<err, r, dec, lastEventID, retry, bodies, pc, resp, waited, afterClose,
                cpc, closes, requests, answers, returned>>

\* A pipe nothing is written to.
NoCodec == [input |-> <<>>, sent |-> 0, failed |-> 0, wire |-> <<>>, closed |-> FALSE,
            d |-> NewDecoderState, out |-> <<>>, done |-> FALSE]

NoDec == [body |-> 0, d |-> NewDecoderState]

\* Close calls that have returned.
ClosesDone == IF cpc = "idle" THEN closes ELSE closes - 1

Init ==
    /\ err = NoErr
    /\ r = 0
    /\ dec = NoDec
    /\ lastEventID = <<>>
    /\ retry \in {NewConfigRetry(c) : c \in ConfigRetries}
    /\ bodies = <<>>
    /\ pc = "idle"
    /\ resp = NoResp
    /\ waited = <<>>
    /\ afterClose = FALSE
    /\ cpc = "idle"
    /\ closes = 0
    /\ requests = <<>>
    /\ answers = <<>>
    /\ returned = <<>>
    /\ codec = NoCodec

\* io.Closer.Close on body b (nothing for b = 0).
CloseBody(bs, b) == IF b = 0 THEN bs ELSE [bs EXCEPT ![b].open = FALSE]

(***************************************************************************)
(* EventSource.Close, run by a goroutine of its own: it may run between    *)
(* two Read calls or while one is in progress.                             *)
(***************************************************************************)
\* CloseErr clearing the error instead of recording ErrClosed.
CloseErr_MutantNil == NoErr

\* The error Close records.
CloseErr == ErrClosed

\* if es.r != nil { es.r.Close() }
CloseCall ==
    /\ cpc = "idle"
    /\ closes < MaxCloses
    /\ closes' = closes + 1
    /\ bodies' = CloseBody(bodies, r)
    /\ cpc' = "setErr"
    /\ UNCHANGED <<err, r, dec, lastEventID, retry, pc, resp, waited, afterClose,
                   requests, answers, returned, codec>>

\* es.err = ErrClosed, and Close returns
CloseReturn ==
    /\ cpc = "setErr"
    /\ err' = CloseErr
    /\ cpc' = "idle"
    /\ UNCHANGED <<r, dec, lastEventID, retry, bodies, pc, resp, waited, afterClose,
                   closes, requests, answers, returned, codec>>

(***************************************************************************)
(* EventSource.connect                                                     *)
(***************************************************************************)
\* for es.err == nil
ConnectContinues(e) == e = NoErr

\* ConnectOutcome with the 5xx test off by one: status 500 falls through to
\* the default case.
ConnectOutcome_Mutant500(o) ==
    IF o.kind = "err" /\ o.err = ErrCanceled
    THEN [class |-> "fatal", err |-> o.err, closeBody |-> FALSE]
    ELSE IF o.kind = "err" THEN [class |-> "retry", err |-> NoErr, closeBody |-> FALSE]
    ELSE IF o.status > 500 THEN [class |-> "retry", err |-> NoErr, closeBody |-> TRUE]
    ELSE IF o.status = 204 THEN [class |-> "fatal", err |-> ErrClosed, closeBody |-> TRUE]
    ELSE IF o.status = 200
    THEN IF ParseMediaType(o.ct) # "text/event-stream"
         THEN [class |-> "fatal", err |-> ErrContentType, closeBody |-> TRUE]
         ELSE [class |-> "bound", err |-> NoErr, closeBody |-> FALSE]
    ELSE [class |-> "fatal", err |-> ErrStatus, closeBody |-> FALSE]

\* The switch on the outcome of client.Do: class is "fatal" (es.err is set
\* to err), "retry" or "bound" (the body becomes es.r); closeBody tells
\* whether resp.Body.Close() is called.
ConnectOutcome(o) ==
    IF o.kind = "err" /\ o.err = ErrCanceled
    THEN [class |-> "fatal", err |-> o.err, closeBody |-> FALSE]
    ELSE IF o.kind = "err" THEN [class |-> "retry", err |-> NoErr, closeBody |-> FALSE]
    ELSE IF o.status >= 500 THEN [class |-> "retry", err |-> NoErr, closeBody |-> TRUE]
    ELSE IF o.status = 204 THEN [class |-> "fatal", err |-> ErrClosed, closeBody |-> TRUE]
    ELSE IF o.status = 200
    THEN IF ParseMediaType(o.ct) # "text/event-stream"
         THEN [class |-> "fatal", err |-> ErrContentType, closeBody |-> TRUE]
         ELSE [class |-> "bound", err |-> NoErr, closeBody |-> FALSE]
    ELSE [class |-> "fatal", err |-> ErrStatus, closeBody |-> FALSE]

\* BoundDecoder keeping the Decoder it had: the new body is read by a
\* Decoder that has already looked for a byte-order mark.
BoundDecoder_MutantReuse(old, body) ==
    [body |-> body, d |-> [pos |-> 1, checkedBOM |-> old.d.checkedBOM]]

\* es.dec = NewDecoder(es.r): a new Decoder on the new body
BoundDecoder(old, body) == [body |-> body, d |-> NewDecoderState]

\* The head of the loop: the guard, and the release of the previous body.
ConnectLoop ==
    /\ pc = "connect"
    /\ IF ConnectContinues(err)
       THEN IF r # 0
            THEN bodies' = CloseBody(bodies, r) /\ pc' = "wait"
            ELSE bodies' = bodies /\ pc' = "send"
       ELSE bodies' = bodies /\ pc' = "loop"
    /\ UNCHANGED <<err, r, dec, lastEventID, retry, resp, waited, afterClose,
                   cpc, closes, requests, answers, returned, codec>>

\* <-time.After(es.retry)
ConnectWait ==
    /\ pc = "wait"
    /\ waited' = <<retry>>
    /\ pc' = "send"
    /\ UNCHANGED <<err, r, dec, lastEventID, retry, bodies, resp, afterClose,
                   cpc, closes, requests, answers, returned, codec>>

\* es.request.Header.Set("Last-Event-Id", es.lastEventID); the call of
\* es.client.Do(es.request)
ConnectSend ==
    /\ pc = "send"
    /\ Len(requests) < MaxRequests
    /\ requests' = Append(requests,
                          [hdr |-> lastEventID, nret |-> Len(returned), waited |-> waited])
    /\ waited' = <<>>
    /\ pc' = "do"
    /\ UNCHANGED <<err, r, dec, lastEventID, retry, bodies, resp, afterClose,
                   cpc, closes, answers, returned, codec>>

\* es.client.Do returns: an error, or a response with a new open body.
ConnectDo ==
    /\ pc = "do"
    /\ \E o \in Outcomes :
          IF o.kind = "err"
          THEN /\ resp' = o
               /\ bodies' = bodies
               /\ answers' = Append(answers, o)
          ELSE /\ resp' = [kind |-> "resp", status |-> o.status, ct |-> o.ct,
                           body |-> Len(bodies) + 1]
               /\ bodies' = Append(bodies, [open |-> TRUE, stream |-> o.stream])
               /\ answers' = Append(answers, [kind |-> "resp", status |-> o.status,
                                              ct |-> ParseMediaType(o.ct),
                                              body |-> Len(bodies) + 1])
    /\ pc' = "classify"
    /\ UNCHANGED <<err, r, dec, lastEventID, retry, waited, afterClose,
                   cpc, closes, requests, returned, codec>>

\* The switch, to the continue or return that ends it.
ConnectSwitch ==
    /\ pc = "classify"
    /\ LET o == ConnectOutcome(resp)
           closed == IF o.closeBody THEN CloseBody(bodies, resp.body) ELSE bodies
       IN /\ bodies' = closed
          /\ err' = IF o.class = "fatal" THEN o.err ELSE err
          /\ r' = IF o.class = "bound" THEN resp.body ELSE r
          /\ dec' = IF o.class = "bound" THEN BoundDecoder(dec, resp.body) ELSE dec
          /\ pc' = IF o.class = "bound" THEN "loop" ELSE "connect"
    /\ resp' = NoResp
    /\ UNCHANGED <<lastEventID, retry, waited, afterClose, cpc, closes, requests, answers, returned, codec>>

(***************************************************************************)
(* EventSource.Read                                                        *)
(***************************************************************************)
\* ReadContinues without the test of es.err.
ReadContinues_MutantAlways(e) == TRUE

\* for es.err == nil
ReadContinues(e) == e = NoErr

\* AfterDecode swallowing every decode error: it decodes again on the dead
\* connection instead of reconnecting.
AfterDecode_MutantNoReconnect(res) ==
    IF res.err # NoErr THEN "again"
    ELSE IF Len(res.e.Data) = 0 THEN "again"
    ELSE "deliver"

\* AfterDecode without the test of len(e.Data): an event without data is
\* delivered.
AfterDecode_MutantNoDataTest(res) ==
    IF res.err = ErrInvalidEncoding THEN "again"
    ELSE IF res.err # NoErr THEN "reconnect"
    ELSE "deliver"

\* What Read does with the result of Decode: "again" (continue),
\* "reconnect" (es.connect(), continue) or "deliver".
AfterDecode(res) ==
    IF res.err = ErrInvalidEncoding THEN "again"
    ELSE IF res.err # NoErr THEN "reconnect"
    ELSE IF Len(res.e.Data) = 0 THEN "again"
    ELSE "deliver"

\* NextLastEventID without its condition: every returned event overwrites
\* es.lastEventID.
NextLastEventID_MutantAlways(last, e) == e.ID

\* if len(e.ID) > 0 || e.ResetID { es.lastEventID = e.ID }
NextLastEventID(last, e) == IF Len(e.ID) > 0 \/ e.ResetID THEN e.ID ELSE last

\* The Retry values that the events of the streams carry.
RetryTexts ==
    UNION { { DecodeTable[st][p][b].e.Retry : p \in 1..(Len(Content(st)) + 1), b \in BOOLEAN } :
            st \in 0..Len(Streams) }

\* strconv.Atoi(e.Retry) and time.Duration(retry) * time.Millisecond,
\* tabulated for those values.
ParsedRetry ==
    [s \in RetryTexts |-> [ok |-> Atoi(s).ok, d |-> Milliseconds(Atoi(s).n)]]

\* if len(e.Retry) > 0 { if retry, err := strconv.Atoi(e.Retry); err == nil {...} }
NextRetry(cur, e) ==
    IF Len(e.Retry) > 0 /\ ParsedRetry[e.Retry].ok THEN ParsedRetry[e.Retry].d ELSE cur

\* StickyAfter taking the fields of every decoded event, returned or not.
StickyAfter_MutantMidParse(todo, cur, new) == new

\* es.lastEventID and es.retry are assigned after the continue statements
\* of the loop body: only for an event that is returned.
StickyAfter(todo, cur, new) == IF todo = "deliver" THEN new ELSE cur

\* What a Read call returns, as the history keeps it.
Returned(e, error) ==
    [ev |-> e, err |-> error, body |-> IF error = NoErr THEN dec.body ELSE 0,
     afterClose |-> afterClose, closes |-> ClosesDone]

\* Read is called: if es.r == nil { es.connect() }
ReadCall ==
    /\ pc = "idle"
    /\ Len(returned) < MaxReads
    /\ afterClose' = (ClosesDone > 0)
    /\ pc' = IF r = 0 THEN "connect" ELSE "loop"
    /\ UNCHANGED <<err, r, dec, lastEventID, retry, bodies, resp, waited,
                   cpc, closes, requests, answers, returned, codec>>

\* The guard of Read's loop.
ReadLoop ==
    /\ pc = "loop"
    /\ pc' = IF ReadContinues(err) THEN "decode" ELSE "fail"
    /\ UNCHANGED <<err, r, dec, lastEventID, retry, bodies, resp, waited, afterClose,
                   cpc, closes, requests, answers, returned, codec>>

\* es.dec.Decode(&e) into a fresh Event, and what follows it in the loop
\* body.
ReadDecode ==
    /\ pc = "decode"
    /\ IF dec.body = 0
       THEN pc' = "panic" /\ UNCHANGED <<dec, lastEventID, retry, returned, codec>>
       ELSE \E buffered \in (IF bodies[dec.body].open THEN {TRUE} ELSE {TRUE, FALSE}) :
            \E res \in {BodyDecode(bodies[dec.body].stream, dec.d,
                                    bodies[dec.body].open, buffered)} :
               LET todo == AfterDecode(res)
               IN /\ dec' = [dec EXCEPT !.d = res.d]
                  /\ lastEventID' =
                        StickyAfter(todo, lastEventID, NextLastEventID(lastEventID, res.e))
                  /\ retry' = StickyAfter(todo, retry, NextRetry(retry, res.e))
                  /\ IF todo = "deliver"
                     THEN /\ returned' = Append(returned, Returned(res.e, NoErr))
                          /\ pc' = "idle"
                     ELSE /\ pc' = IF todo = "reconnect" THEN "connect" ELSE "loop"
                          /\ UNCHANGED returned
    /\ UNCHANGED <<err, r, bodies, resp, waited, afterClose, cpc, closes, requests, answers, codec>>

\* return Event{}, es.err
ReadFail ==
    /\ pc = "fail"
    /\ returned' = Append(returned, Returned(ZeroEvent, err))
    /\ pc' = "idle"
    /\ UNCHANGED <<err, r, dec, lastEventID, retry, bodies, resp, waited, afterClose,
                   cpc, closes, requests, answers, codec>>

Next ==
    \/ ReadCall
    \/ ConnectLoop
    \/ ConnectWait
    \/ ConnectSend
    \/ ConnectDo
    \/ ConnectSwitch
    \/ ReadLoop
    \/ ReadDecode
    \/ ReadFail
    \/ CloseCall
    \/ CloseReturn

Spec == Init /\ [][Next]_vars

\* The steps of the goroutine that calls Read: the caller calls again, the
\* timer fires, the transport answers, the stream yields bytes or ends.
ReaderNext ==
    \/ ReadCall
    \/ ConnectLoop
    \/ ConnectWait
    \/ ConnectSend
    \/ ConnectDo
    \/ ConnectSwitch
    \/ ReadLoop
    \/ ReadDecode
    \/ ReadFail

\* The client with a reader that is not halted.
LiveSpec == Spec /\ WF_vars(ReaderNext)

C2_ReadAfterCloseReturnsErrClosed ==
    \A i \in 1..Len(returned) :
        returned[i].afterClose => returned[i].err = ErrClosed

\* C3: once the terminal error is set, the client issues no request: every
\* request is issued while es.err is nil.
C3_NoRequestAfterTerminalError ==
    [][Len(requests') > Len(requests) => err = NoErr]_vars

\* The classification C4 states, in its own words.
C4_Fatal(o) ==
    \/ o.kind = "err" /\ o.err = ErrCanceled
    \/ /\ o.kind = "resp"
       /\ \/ o.status = 204
          \/ o.status = 200 /\ ParseMediaType(o.ct) # "text/event-stream"
          \/ o.status # 200 /\ o.status < 500

C4_Recoverable(o) ==
    \/ o.kind = "err" /\ o.err # ErrCanceled
    \/ o.kind = "resp" /\ o.status >= 500

C4_Success(o) ==
    o.kind = "resp" /\ o.status = 200 /\ ParseMediaType(o.ct) = "text/event-stream"

\* C4: the switch of connect sets es.err exactly for a cancellation, a 204,
\* a 200 whose media type is not text/event-stream, and any other status
\* below 500; a recoverable outcome leaves es.err alone and goes back to
\* the head of the loop; a 200 text/event-stream binds the body and a fresh
\* Decoder and returns from connect.
C4_Classification ==
    [][(pc = "classify" /\ pc' # "classify") =>
          /\ C4_Fatal(resp) => (err' # NoErr /\ pc' = "connect" /\ r' = r /\ dec' = dec)
          /\ (err' # err) => C4_Fatal(resp)
          /\ C4_Recoverable(resp) => (err' = err /\ pc' = "connect" /\ r' = r /\ dec' = dec)
          /\ C4_Success(resp) =>
                /\ err' = err
                /\ r' = resp.body
                /\ dec' = [body |-> resp.body, d |-> NewDecoderState]
                /\ bodies'[resp.body].open
                /\ pc' = "loop"
          /\ C4_Fatal(resp) \/ C4_Recoverable(resp) \/ C4_Success(resp)]_vars

\* C4 witness: after a recoverable outcome, a later attempt ended with an
\* unrecoverable status.
C4_Witness == err = ErrStatus /\ pc = "connect" /\ Len(requests) >= 2

\* The ID of the most recent event among rs, the results of Read calls,
\* that had a non-empty ID or ResetID set; empty when there is none.
RECURSIVE LastObservedID(_)
LastObservedID(rs) ==
    IF rs = <<>> THEN <<>>
    ELSE LET last == rs[Len(rs)]
         IN IF last.err = NoErr /\ (Len(last.ev.ID) > 0 \/ last.ev.ResetID)
            THEN last.ev.ID
            ELSE LastObservedID(SubSeq(rs, 1, Len(rs) - 1))

\* C6: every request carries as Last-Event-Id the ID of the most recent
\* event Read had returned by then with a non-empty ID or ResetID set
\* (empty when there is none), and es.lastEventID never holds anything else.
C6_LastEventIDEchoed ==
    /\ \A q \in 1..Len(requests) :
          requests[q].hdr = LastObservedID(SubSeq(returned, 1, requests[q].nret))
    /\ lastEventID = LastObservedID(returned)

\* C6 witness: a reconnect carried a non-empty Last-Event-Id, and a later
\* one an empty Last-Event-Id again, after a returned event reset the ID.
C6_Witness ==
    \E p \in 1..Len(requests) : \E q \in 1..Len(requests) :
        p < q /\ requests[p].hdr # <<>> /\ requests[q].hdr = <<>>

\* What Decode yields next on the bound body, when that body is open.
DecodeNow == BodyDecode(bodies[dec.body].stream, dec.d, TRUE, TRUE)

\* A step of the reader out of Decode, on an open body.
DecodeStepOnOpenBody ==
    pc = "decode" /\ pc' # "decode" /\ dec.body # 0 /\ bodies[dec.body].open

\* C8: a decode error on an established connection is not returned by Read
\* but leads to connect; the error a Read call returns is es.err, which is
\* then not nil, and never an error of the stream.
C8_DecodeErrorsReconnect ==
    [][/\ (DecodeStepOnOpenBody /\ DecodeNow.err \notin {NoErr, ErrInvalidEncoding})
            => (pc' = "connect" /\ returned' = returned /\ err' = err)
       /\ (pc = "decode" /\ pc' = "connect") => returned' = returned
       /\ (returned' # returned /\ returned'[Len(returned')].err # NoErr)
            => /\ returned'[Len(returned')].err = err
               /\ err # NoErr
               /\ err \notin {ErrEOF, ErrBodyClosed, ErrInvalidEncoding}]_vars

\* C8 witness: a stream ended, the client reconnected, and the next Read
\* result was an event, no error.
C8_Witness ==
    /\ Len(requests) >= 2
    /\ Len(returned) >= 1
    /\ returned[Len(returned)].err = NoErr
    /\ returned[Len(returned)].body >= 2
    /\ \E b \in 1..(returned[Len(returned)].body - 1) : bodies[b].stream # 0

\* C9: Read returns no event with zero-length Data; a decoded event with
\* zero-length Data is dropped and Read decodes again from the same
\* connection, without a reconnect.
C9_EmptyDataDiscarded ==
    /\ [](\A i \in 1..Len(returned) :
             returned[i].err = NoErr => Len(returned[i].ev.Data) > 0)
    /\ [][(DecodeStepOnOpenBody /\ DecodeNow.err = NoErr /\ Len(DecodeNow.e.Data) = 0)
             => /\ pc' = "loop"
                /\ returned' = returned
                /\ requests' = requests
                /\ r' = r
                /\ dec' = [dec EXCEPT !.d = DecodeNow.d]
                /\ bodies' = bodies]_vars

\* C9 witness: the first block of the third stream, an event without data,
\* has been decoded and dropped, and Read is decoding on.
C9_Witness ==
    /\ pc = "loop"
    /\ returned = <<>>
    /\ dec.body # 0
    /\ bodies[dec.body].stream = 3
    /\ dec.d = DecodeTable[3][1][FALSE].d
    /\ Len(DecodeTable[3][1][FALSE].e.Data) = 0
    /\ Len(requests) = 1

\* The stream without its lines that are not valid UTF-8.
DropInvalidLines(content) ==
    LET segs == Split(content)
        kept == SelectSeq(SubSeq(segs, 1, Len(segs) - 1), Valid)
        rest == IF Valid(segs[Len(segs)]) THEN segs[Len(segs)] ELSE <<>>
    IN Wire(kept, rest)

\* The events Read delivers from one stream read to its end: the loop of
\* Read on one connection.
RECURSIVE Delivered(_, _)
Delivered(content, d) ==
    CHOOSE out \in
        { IF AfterDecode(res) = "deliver" THEN <<res.e>> \o Delivered(content, res.d)
          ELSE IF AfterDecode(res) = "again" THEN Delivered(content, res.d)
          ELSE <<>> :
            res \in {Decode(content, d, ZeroEvent, ErrEOF)} } : TRUE

\* What Read delivers from each stream, and from each stream without its
\* invalid lines.
DeliveredFrom == [st \in 0..Len(Streams) |-> Delivered(Content(st), NewDecoderState)]

DeliveredFromClean ==
    [st \in 0..Len(Streams) |-> Delivered(DropInvalidLines(Content(st)), NewDecoderState)]

\* C10: a line that is not valid UTF-8 costs that one line only: the events
\* Read returns from a stream are those of the stream without its invalid
\* lines, so the event of a block with an invalid line keeps the block's
\* other fields, those before the line and those after it.
C10_InvalidLineSkippedAlone ==
    \A i \in 1..Len(returned) :
        returned[i].err = NoErr =>
            LET clean == DeliveredFromClean[bodies[returned[i].body].stream]
            IN \E k \in 1..Len(clean) : clean[k] = returned[i].ev

\* A stream with a complete event with non-empty Data: all of its bytes are
\* valid UTF-8 and reading it delivers an event.
C5_GoodStream(st) ==
    Valid(Content(st)) /\ Len(DeliveredFrom[st]) >= 1

\* So far the transport has answered only recoverable outcomes (to fewer
\* requests than the bound allows) and 200 text/event-stream responses
\* with a good stream, and Close has not been called.
C5_TransientOnly ==
    /\ closes = 0
    /\ \A i \in 1..Len(answers) :
          \/ C4_Recoverable(answers[i]) /\ i < MaxRequests
          \/ C4_Success(answers[i]) /\ C5_GoodStream(bodies[answers[i].body].stream)

\* The first Read call returned, with a nil error, the first event of the
\* first stream the transport answered.
C5_FirstEventReturned ==
    /\ Len(returned) >= 1
    /\ returned[1].err = NoErr
    /\ \A b \in 1..(returned[1].body - 1) : bodies[b].stream = 0
    /\ returned[1].ev = DeliveredFrom[bodies[returned[1].body].stream][1]

\* C5: when the transport answers finitely many recoverable outcomes and
\* then a 200 text/event-stream response whose stream has a complete event
\* with data, and Close is not called, Read eventually returns that event
\* with a nil error, and es.err is not set on the way: every behaviour
\* reaches that return unless the transport or the caller departs from
\* the scenario, and es.err is nil as long as they have not.
C5_TransientFailuresAbsorbed ==
    /\ <>(C5_FirstEventReturned \/ ~C5_TransientOnly)
    /\ [](C5_TransientOnly => err = NoErr)

\* C5 witness: the event was returned after two recoverable outcomes, a
\* transport error and a 5xx response.
C5_Witness ==
    /\ C5_FirstEventReturned
    /\ closes = 0
    /\ err = NoErr
    /\ Len(requests) = 3
    /\ Len(bodies) = 2
    /\ returned[1].body = 2

\* A step in which Read returns an event, with a nil error.
ReturnsEvent ==
    /\ Len(returned') = Len(returned) + 1
    /\ returned'[Len(returned')].err = NoErr

\* The decimal text of a non-negative integer.
C13_IsDecimal(s) == Len(s) > 0 /\ \A i \in 1..Len(s) : DigitVal(s[i]) >= 0

\* The Duration of n milliseconds, for the decimal text s of n.
C13_MillisecondsOf(s) == [neg |-> FALSE, mag |-> BigShift(DigitsVal(s), 6)]

\* C13: when Read returns an event whose Retry is the decimal text of a
\* non-negative integer n, es.retry becomes n milliseconds; connect waits
\* es.retry before a reconnect, and es.retry stays as it is until Read
\* returns an event.
C13_RetryFollowsEvent ==
    [][/\ (ReturnsEvent /\ C13_IsDecimal(returned'[Len(returned')].ev.Retry))
            => retry' = C13_MillisecondsOf(returned'[Len(returned')].ev.Retry)
       /\ (pc = "wait" /\ pc' # "wait") => waited' = <<retry>>
       /\ ~ReturnsEvent => retry' = retry]_vars

\* C14: es.retry changes only when Read returns an event whose Retry is
\* the decimal text of a non-negative integer: an absent, non-numeric or
\* negative Retry leaves it as it was.
C14_RetryChangesOnlyOnValidRetry ==
    [][retry' # retry =>
          /\ ReturnsEvent
          /\ C13_IsDecimal(returned'[Len(returned')].ev.Retry)]_vars

\* C15: es.lastEventID and es.retry change only in the step in which Read
\* returns an event, and only to what that event says: a block cut off by
\* a stream error and an event dropped for its empty Data leave both as
\* they were.
C15_StickyStateOnlyOnReturn ==
    [][/\ (lastEventID' # lastEventID \/ retry' # retry) =>
             /\ ReturnsEvent
             /\ Len(returned'[Len(returned')].ev.Data) > 0
             /\ lastEventID' = NextLastEventID(lastEventID, returned'[Len(returned')].ev)
             /\ retry' = NextRetry(retry, returned'[Len(returned')].ev)
       /\ (DecodeStepOnOpenBody /\ AfterDecode(DecodeNow) # "deliver")
             => (lastEventID' = lastEventID /\ retry' = retry)]_vars

\* C15 witness: the block of the fifth stream, cut off after its id and
\* retry lines, and the data-less block with an id and a retry of the third
\* stream have both been read, and the client has reconnected with
\* an empty Last-Event-Id.
C15_Witness ==
    /\ Len(bodies) = 2
    /\ bodies[1].stream = 5
    /\ bodies[2].stream = 3
    /\ dec = [body |-> 2, d |-> DecodeTable[3][1][FALSE].d]
    /\ pc = "loop"
    /\ returned = <<>>
    /\ requests[2].hdr = <<>>
    /\ lastEventID = <<>>

\* C16: every request but the first is sent after a wait.
C16_WaitBeforeEveryRetry ==
    \A q \in 2..Len(requests) : requests[q].waited # <<>>

\* C17: connect returns only with es.err set or with a new Decoder bound
\* to the open body of the 200 text/event-stream response just received,
\* and with neither of the two it goes on; Read never calls Decode on a
\* Decoder that is not bound.
C17_ConnectReturnsBoundOrFailed ==
    /\ [](pc # "panic" /\ (pc = "decode" => (dec.body # 0 /\ dec.body = r)))
    /\ [][/\ (pc = "connect" /\ pc' = "loop") => err # NoErr
          /\ (pc = "classify" /\ pc' = "loop") =>
                /\ C4_Success(resp)
                /\ resp.body = Len(bodies)
                /\ r' = resp.body
                /\ dec' = [body |-> resp.body, d |-> NewDecoderState]
                /\ bodies'[resp.body].open
          /\ (pc = "connect" /\ pc' # "connect" /\ err = NoErr) => pc' \in {"wait", "send"}
          /\ (pc = "classify" /\ pc' # "classify" /\ ~C4_Success(resp)) => pc' = "connect"
          /\ (pc \in {"idle", "decode"} /\ pc' = "connect") =>
                (IF pc = "idle" THEN r = 0 ELSE r # 0)]_vars

\* C17 witness: after a failed attempt connect has returned with a Decoder
\* bound to the second response's body, and Read is about to call Decode.
C17_Witness ==
    /\ pc = "decode"
    /\ err = NoErr
    /\ Len(requests) = 2
    /\ Len(bodies) = 2
    /\ dec = [body |-> 2, d |-> NewDecoderState]

\* C18: the switch of connect closes the body of a response it classifies
\* as fatal or recoverable, and when es.err is set and no Read or Close call
\* is in progress no body the transport handed out is open.
C18_NoBodyLeftOpen ==
    [][/\ (pc = "classify" /\ pc' # "classify" /\ resp.kind = "resp"
             /\ (C4_Fatal(resp) \/ C4_Recoverable(resp)))
            => ~bodies'[resp.body].open
       /\ (err' # NoErr /\ pc' = "idle" /\ cpc' = "idle")
            => \A b \in 1..Len(bodies') : ~bodies'[b].open]_vars

\* The events among rs, the results of Read calls, that came from body b.
RECURSIVE EventsFromBody(_, _)
EventsFromBody(rs, b) ==
    IF rs = <<>> THEN <<>>
    ELSE IF Head(rs).err = NoErr /\ Head(rs).body = b
         THEN <<Head(rs).ev>> \o EventsFromBody(Tail(rs), b)
         ELSE EventsFromBody(Tail(rs), b)

\* C19: the events Read returned from one connection are the first events
\* that the bytes of that connection alone give, read from their start:
\* nothing of another connection is in them.
C19_EventsOfOneConnection ==
    \A b \in 1..Len(bodies) :
        LET got == EventsFromBody(returned, b)
            alone == DeliveredFrom[bodies[b].stream]
        IN Len(got) <= Len(alone) /\ got = SubSeq(alone, 1, Len(got))

\* C19 witness: the first connection died in a block with an id, a retry
\* and a data line, and the event returned from the second connection has
\* the fields of its own block only.
C19_Witness ==
    /\ Len(bodies) >= 2
    /\ bodies[1].stream = 5
    /\ bodies[2].stream = 1
    /\ Len(returned) >= 1
    /\ returned[1] = [ev |-> DeliveredFrom[1][1], err |-> NoErr, body |-> 2,
                      afterClose |-> FALSE, closes |-> 0]
    /\ returned[1].ev.Retry = <<>>

(***************************************************************************)
(* The codec on its own, as TestEncodeDecodeIdentity runs it: one          *)
(* goroutine encodes a sequence of events into an io.Pipe and closes it,   *)
(* another decodes from the pipe until Decode fails.                       *)
(***************************************************************************)
\* The events encoded: the combinations of plain field values, and events
\* with one unusual field each.
PlainEvents ==
    { [Type |-> <<"t">>, ID |-> id, Retry |-> rt, Data |-> data, ResetID |-> reset] :
        id \in {<<>>, <<"1">>}, rt \in {<<>>, <<"5">>},
        data \in {<<"x">>, <<" ", "x", LF, LF, "y", ":">>}, reset \in BOOLEAN }

OddEvents ==
    { [ZeroEvent EXCEPT !.Data = <<"x">>],
      [ZeroEvent EXCEPT !.Type = <<"t", CR>>, !.Data = <<"x">>],
      [ZeroEvent EXCEPT !.Type = <<"t">>, !.ID = <<"1", LF, "2">>, !.Data = <<"x">>],
      [ZeroEvent EXCEPT !.Type = <<"t">>, !.Data = <<"x", CR, LF, "y">>],
      [ZeroEvent EXCEPT !.Type = <<"t">>, !.Data = <<"x", CR>>],
      [ZeroEvent EXCEPT !.Type = <<"t">>, !.ID = <<"1">>, !.Data = <<XFF>>],
      [ZeroEvent EXCEPT !.Type = <<"t">>, !.Retry = <<"5", CR, "6">>, !.Data = <<BOM, "x">>],
      [ZeroEvent EXCEPT !.Type = <<"t">>] }

CodecEvents == PlainEvents \cup OddEvents

CodecInputs == UNION { [1..n -> CodecEvents] : n \in 1..MaxEvents }

CodecInit ==
    /\ err = NoErr
    /\ r = 0
    /\ dec = NoDec
    /\ lastEventID = <<>>
    /\ retry = NewConfigRetry(0)
    /\ bodies = <<>>
    /\ pc = "idle"
    /\ resp = NoResp
    /\ waited = <<>>
    /\ afterClose = FALSE
    /\ cpc = "idle"
    /\ closes = 0
    /\ requests = <<>>
    /\ answers = <<>>
    /\ returned = <<>>
    /\ codec \in { [NoCodec EXCEPT !.input = in] : in \in CodecInputs }

\* e.Encode(event) for the next event; an error is reported and the loop
\* goes on with the event after it.
CodecEncode ==
    /\ codec.sent < Len(codec.input)
    /\ \E res \in {Encode(codec.input[codec.sent + 1])} :
          codec' = [codec EXCEPT !.sent = @ + 1,
                                 !.wire = @ \o res.out,
                                 !.failed = IF res.err # NoErr THEN @ + 1 ELSE @]
    /\ UNCHANGED clientVars

\* defer w.Close()
CodecClose ==
    /\ codec.sent = Len(codec.input)
    /\ codec.sent > 0
    /\ ~codec.closed
    /\ codec' = [codec EXCEPT !.closed = TRUE]
    /\ UNCHANGED clientVars

\* d.Decode(&e) into a fresh Event: it blocks while the bytes written do
\* not hold the end of a block; its first error ends the decoding loop.
CodecDecode ==
    /\ ~codec.done
    /\ \E res \in {Decode(codec.wire, codec.d, ZeroEvent,
                         IF codec.closed THEN ErrEOF ELSE "blocked")} :
          /\ res.err # "blocked"
          /\ codec' = IF res.err = NoErr
                      THEN [codec EXCEPT !.d = res.d, !.out = Append(@, res.e)]
                      ELSE [codec EXCEPT !.d = res.d, !.done = TRUE]
    /\ UNCHANGED clientVars

CodecNext == CodecEncode \/ CodecClose \/ CodecDecode

CodecSpec == CodecInit /\ [][CodecNext]_vars

\* The events C7 is about.
C7_Stated(e) == Len(e.Data) > 0 /\ ~(e.ResetID /\ Len(e.ID) > 0)

\* No line of v, as bytes.Split cuts it, ends with CR.
C7_NoCRLine(v) ==
    \A k \in 1..Len(Split(v)) :
        Len(Split(v)[k]) = 0 \/ Split(v)[k][Len(Split(v)[k])] # CR

\* A field a single line carries: valid UTF-8, no LF, no CR at its end.
C7_OneLine(v) == Valid(v) /\ IndexFrom(v, LF, 1) = 0 /\ C7_NoCRLine(v)

\* The events that do make the round trip.
C7_Plain(e) ==
    /\ C7_Stated(e)
    /\ Len(e.Type) > 0
    /\ C7_OneLine(e.Type) /\ C7_OneLine(e.ID) /\ C7_OneLine(e.Retry)
    /\ Valid(e.Data) /\ C7_NoCRLine(e.Data)

\* C7 (as stated): a sequence of events with non-empty Data and not both
\* ResetID and a non-empty ID, encoded and then decoded, comes out equal in
\* every field and in the same order.
C7_RoundTrip ==
    (codec.done /\ \A i \in 1..Len(codec.input) : C7_Stated(codec.input[i]))
        => codec.out = codec.input

\* C7 (amended): the same for events that moreover have a non-empty Type,
\* valid UTF-8 in every field, no LF in Type, ID and Retry, and no line of
\* any field ending with CR.
C7_RoundTripPlain ==
    (codec.done /\ \A i \in 1..Len(codec.input) : C7_Plain(codec.input[i]))
        => codec.out = codec.input

\* C7 witness: two events made the round trip, one with ResetID and one
\* with an ID, a Retry and Data of several lines.
C7_Witness ==
    /\ codec.done
    /\ Len(codec.input) = 2
    /\ \A i \in 1..2 : C7_Plain(codec.input[i])
    /\ codec.out = codec.input
    /\ codec.input[1].ResetID
    /\ Len(codec.input[2].ID) > 0 /\ Len(codec.input[2].Retry) > 0
    /\ Len(Split(codec.input[2].Data)) = 3

(***************************************************************************)
(* The Decoder on its own, as TestDecoderDecode runs it: a Decoder on a    *)
(* buffer holding a whole stream, and Decode called on it, each time into  *)
(* a zero Event, until the stream gives an error.  ErrInvalidEncoding is   *)
(* not an error of the stream: the caller decodes on.                      *)
(***************************************************************************)
\* The lines the streams are made of, and an unterminated last line.
DecoderLines ==
    { Blank, LineCR, LineColon, LineID1, LineIDReset, LineEventT, LineEventEmpty,
      LineDataX, LineDataEmpty, LineInvalid, LineBOM, LineBOMDataX, LineUnknown }

DecoderRests == { <<>>, LineDataX, LineColon }

DecoderStreams ==
    { Wire(lines, rest) :
        lines \in UNION { [1..n -> DecoderLines] : n \in 0..MaxLines },
        rest \in DecoderRests }

DecoderInit ==
    /\ err = NoErr
    /\ r = 0
    /\ dec = NoDec
    /\ lastEventID = <<>>
    /\ retry = NewConfigRetry(0)
    /\ bodies = <<>>
    /\ pc = "idle"
    /\ resp = NoResp
    /\ waited = <<>>
    /\ afterClose = FALSE
    /\ cpc = "idle"
    /\ closes = 0
    /\ requests = <<>>
    /\ answers = <<>>
    /\ returned = <<>>
    /\ codec \in { [NoCodec EXCEPT !.wire = w, !.closed = TRUE] : w \in DecoderStreams }

\* dec.Decode(&event) with a zero event
DecoderDecode ==
    /\ ~codec.done
    /\ \E res \in {Decode(codec.wire, codec.d, ZeroEvent, ErrEOF)} :
          codec' = IF res.err = NoErr
                   THEN [codec EXCEPT !.d = res.d, !.out = Append(@, res.e)]
                   ELSE IF res.err = ErrInvalidEncoding
                   THEN [codec EXCEPT !.d = res.d, !.failed = @ + 1]
                   ELSE [codec EXCEPT !.d = res.d, !.done = TRUE]
    /\ UNCHANGED clientVars

DecoderNext == DecoderDecode

DecoderSpec == DecoderInit /\ [][DecoderNext]_vars

\* The line of content that the LF at index nl ends, without the CR of a
\* CR LF ending and without a byte-order mark at the start of the stream.
C11_LineEndedAt(content, nl) ==
    LET before == {i \in 1..(nl - 1) : content[i] = LF}
        start == IF before = {} THEN 1
                 ELSE (CHOOSE i \in before : \A j \in before : j <= i) + 1
        raw == SubSeq(content, start, nl - 1)
        line == IF Len(raw) > 0 /\ raw[Len(raw)] = CR THEN SubSeq(raw, 1, Len(raw) - 1)
                ELSE raw
    IN IF start = 1 /\ Len(line) > 0 /\ line[1] = BOM THEN Tail(line) ELSE line

\* The indices of the LFs of content that end a blank line.
C11_BlankLines(content) ==
    {nl \in 1..Len(content) : content[nl] = LF /\ C11_LineEndedAt(content, nl) = <<>>}

\* C11: Decode returns successfully only having read a blank line, the
\* first one of the unread part of the stream, and no other return of
\* Decode consumes a blank line: the events are, one to one and in order,
\* the blocks that a blank line ends.
C11_BlankLineEndsBlock ==
    [][LET blanks == {nl \in C11_BlankLines(codec.wire) : nl >= codec.d.pos}
       IN /\ Len(codec'.out) > Len(codec.out) =>
                /\ codec'.d.pos - 1 \in blanks
                /\ \A nl \in blanks : codec'.d.pos - 1 <= nl
          /\ Len(codec'.out) = Len(codec.out) =>
                \A nl \in blanks : codec'.d.pos <= nl]_vars

\* C12: an event Decode produced has a non-empty Type.
C12_TypeNeverEmpty ==
    \A i \in 1..Len(codec.out) : Len(codec.out[i].Type) > 0

\* C20: an Encode call that returns an error has written nothing.
C20_FailedEncodeWritesNothing ==
    [][(codec'.sent > codec.sent /\ codec'.failed > codec.failed)
          => codec'.wire = codec.wire]_vars

\* A step in which Decode returns successfully.
DecodeSucceeds == Len(codec'.out) = Len(codec.out) + 1

\* The lines of the block of content that the Decode call starting at index
\* from reads in: from the end of the last blank line before from to the
\* first blank line at or after it (to the end of content without one),
\* each without the CR of a CR LF ending, the first line of the stream
\* without its byte-order mark.
C21_BlockLines(content, from) ==
    LET before == {nl \in C11_BlankLines(content) : nl < from}
        after == {nl \in C11_BlankLines(content) : nl >= from}
        start == IF before = {} THEN 1
                 ELSE (CHOOSE i \in before : \A j \in before : j <= i) + 1
        end == IF after = {} THEN Len(content)
               ELSE (CHOOSE i \in after : \A j \in after : i <= j) - 1
        raw == Split(SubSeq(content, start, end))
    IN [k \in 1..Len(raw) |->
           LET l == StripCR(raw[k])
           IN IF start = 1 /\ k = 1 /\ Len(l) > 0 /\ l[1] = BOM THEN Tail(l) ELSE l]

\* Whether line is a data field, and its value.
C21_IsData(line) ==
    /\ Valid(line)
    /\ Len(line) >= 4
    /\ SubSeq(line, 1, 4) = FieldData
    /\ (Len(line) = 4 \/ line[5] = ":")

C21_DataValue(line) ==
    IF Len(line) <= 5 THEN <<>>
    ELSE IF line[6] = " " THEN SubSeq(line, 7, Len(line))
    ELSE SubSeq(line, 6, Len(line))

\* The values joined, with one LF between two of them.
RECURSIVE C21_Join(_)
C21_Join(values) ==
    IF values = <<>> THEN <<>>
    ELSE IF Len(values) = 1 THEN values[1]
    ELSE (values[1] \o newline) \o C21_Join(Tail(values))

\* The data values of the lines, in order.
RECURSIVE C21_DataValues(_)
C21_DataValues(lines) ==
    IF lines = <<>> THEN <<>>
    ELSE IF C21_IsData(Head(lines))
         THEN <<C21_DataValue(Head(lines))>> \o C21_DataValues(Tail(lines))
         ELSE C21_DataValues(Tail(lines))

\* C21: the Data of an event Decode produces is the values of the data
\* fields of its block, in order, with one LF between two of them; other
\* lines add nothing to it.
C21_DataJoinsDataFields ==
    [][DecodeSucceeds =>
          codec'.out[Len(codec'.out)].Data =
             C21_Join(C21_DataValues(C21_BlockLines(codec.wire, codec.d.pos)))]_vars

\* C22: a Decoder strips one byte-order mark at the very start of its
\* stream and none after it: every Decode call gives what a Decoder that
\* never looks for a byte-order mark gives on the stream without a leading
\* U+FEFF, so that a U+FEFF at the start of a later line stays in the line.
C22_BOMStrippedOnceAtStart ==
    [][LET lead == IF Len(codec.wire) > 0 /\ codec.wire[1] = BOM THEN 1 ELSE 0
           plain == SubSeq(codec.wire, 1 + lead, Len(codec.wire))
           at == IF codec.d.pos = 1 THEN 1 ELSE codec.d.pos - lead
           ref == Decode(plain, [pos |-> at, checkedBOM |-> TRUE], ZeroEvent, ErrEOF)
       IN /\ codec'.d.pos = ref.d.pos + lead
          /\ DecodeSucceeds <=> ref.err = NoErr
          /\ DecodeSucceeds => codec'.out[Len(codec'.out)] = ref.e
          /\ codec'.failed > codec.failed <=> ref.err = ErrInvalidEncoding
          /\ codec'.done <=> ref.err = ErrEOF]_vars

\* C22 witness: a stream whose first and second lines both start with
\* U+FEFF has been decoded to its end: the first line gave the data of the
\* one event, the second line nothing.
C22_Witness ==
    /\ codec.done
    /\ codec.wire = Wire(<<LineBOMDataX, LineBOMDataX, Blank>>, <<>>)
    /\ codec.out = <<[ZeroEvent EXCEPT !.Type = TypeMessage, !.Data = <<"x">>]>>

====
